---- MODULE Spec2Model ----
(***************************************************************************)
(* Imagio: the OCR image preprocessing pipeline of src-tauri/src.          *)
(*                                                                         *)
(* Representation.                                                         *)
(*  - A buffer is [w, h, px]: px is the row-major sequence of pixels, a    *)
(*    pixel is <<v, a>>.  Input buffers are gray (R = G = B = v); for such *)
(*    a pixel to_luma8 returns v, and every per-channel operation of the   *)
(*    pipeline keeps R = G = B, so v stands for the three colour channels. *)
(*  - f32 parameters are integers in tenths (contrast 13 is 1.3), f32      *)
(*    metrics are integers in thousandths (blur_score 30000 is 30.0).      *)
(*    Arithmetic on them is exact; `as u8` is truncation after the clamp.  *)
(*  - u32 arithmetic that can underflow depends on the build: a debug      *)
(*    build panics, a release build wraps modulo 2^32.  `build` is chosen  *)
(*    when the quality assessment runs; both outcomes are explored.        *)
(***************************************************************************)
EXTENDS Integers, Sequences, FiniteSets, TLC

VARIABLES
    build,      \* "either" until assessed, then "debug" | "release"
    input,      \* the buffer handed to perform_ocr
    base,       \* the ProcessingParams handed to perform_ocr
    pc,         \* position of the running call
    stack,      \* call stack: sequence of function names, innermost last
    params,     \* the params argument of the running preprocess_image call
    metrics,    \* ImageQualityMetrics computed by adaptive_preprocess
    processed,  \* `processed`, the buffer the stages rewrite
    ran,        \* the stage operations executed so far, in order
    outcome,    \* "running" | "ok" | "panic"
    calls,      \* number of preprocess_image invocations so far
    assessed,   \* number of assess_image_quality invocations so far
    lines,      \* what detect_lines returns on the buffer given to correct_skew
    rotations   \* number of rotate_about_center calls so far

vars == <<build, input, base, pc, stack, params, metrics, processed, ran,
          outcome, calls, assessed, lines, rotations>>

----------------------------------------------------------------------------
(* Bounds of the explored inputs *)

\* largest width and height of the enumerated small buffers
MaxDim == 3

----------------------------------------------------------------------------
(* Arithmetic helpers *)

Min(a, b) == IF a < b THEN a ELSE b

Max(a, b) == IF a > b THEN a ELSE b

Clamp(x, lo, hi) == IF x < lo THEN lo ELSE IF x > hi THEN hi ELSE x

Abs(x) == IF x < 0 THEN -x ELSE x

RECURSIVE SumRange(_, _, _)
\* sum of f[lo..hi], by halves
SumRange(f, lo, hi) ==
    IF lo > hi THEN 0
    ELSE IF lo = hi THEN f[lo]
    ELSE LET mid == (lo + hi) \div 2
         IN  SumRange(f, lo, mid) + SumRange(f, mid + 1, hi)

SumSeq(f) == SumRange(f, 1, Len(f))

RECURSIVE IsqrtBetween(_, _, _)
\* floor(sqrt(n)) by bisection over lo..hi, lo*lo <= n < (hi+1)*(hi+1)
IsqrtBetween(n, lo, hi) ==
    IF lo >= hi THEN lo
    ELSE LET mid == (lo + hi + 1) \div 2
         IN  IF mid * mid <= n THEN IsqrtBetween(n, mid, hi)
                               ELSE IsqrtBetween(n, lo, mid - 1)

\* f32::sqrt on a non-negative value, rounded down to an integer
Isqrt(n) == IsqrtBetween(n, 0, 46340)

----------------------------------------------------------------------------
(* PixelBuffer *)

\* column and row of the i-th pixel of a row-major buffer of width w
XOf(i, w) == (i - 1) % w

YOf(i, w) == (i - 1) \div w

\* GenericImageView::get_pixel, 0-based (x, y)
get_pixel(img, x, y) == img.px[y * img.w + x + 1]

\* DynamicImage::to_luma8 followed by get_pixel(x, y).0[0]
Luma(img, x, y) == img.px[y * img.w + x + 1][1]

\* the gray view as a sequence
to_luma8(img) == [i \in 1..(img.w * img.h) |-> img.px[i][1]]

\* a gray view re-expanded to RGBA with alpha 255
FromLuma(w, h, g) == [w |-> w, h |-> h, px |-> [i \in 1..(w * h) |-> <<g[i], 255>>]]

\* x with the clamped offset: (x as i32 + dx).clamp(0, n as i32 - 1)
ClampedCoord(x, dx, n) == Clamp(x + dx, 0, n - 1)

\* number of offsets d in -r..r whose clamped coordinate is nx
Multiplicity(x, nx, n, r) ==
    IF nx < x - r \/ nx > x + r THEN 0
    ELSE IF n = 1 THEN 2 * r + 1
    ELSE IF nx = 0 THEN Max(r - x, 0) + 1
    ELSE IF nx = n - 1 THEN Max(x + r - (n - 1), 0) + 1
    ELSE 1

----------------------------------------------------------------------------
(* ToneAdjuster: preprocessing/adjustments.rs *)

\* (t / 10 as f32).clamp(0.0, 255.0) as u8, t in tenths
ClampToU8Tenths(t) == Clamp(t, 0, 2550) \div 10

adjust_brightness(img, brightness) ==
    [img EXCEPT !.px = [i \in DOMAIN img.px |->
        <<ClampToU8Tenths(img.px[i][1] * 10 + brightness * 255), img.px[i][2]>>]]

\* adjust_contrast with the clamp applied to the scaled difference, before
\* 128 is added back
adjust_contrastClampFirst(img, contrast) ==
    [img EXCEPT !.px = [i \in DOMAIN img.px |->
        <<Min(ClampToU8Tenths((img.px[i][1] - 128) * contrast) + 128, 255),
          img.px[i][2]>>]]

adjust_contrast(img, contrast) ==
    [img EXCEPT !.px = [i \in DOMAIN img.px |->
        <<ClampToU8Tenths((img.px[i][1] - 128) * contrast + 1280), img.px[i][2]>>]]

\* center + amount * (center - avg) for an interior pixel, in fortieths:
\* amount = (sharpness - 1.0) * 2.0, avg = sum / 4.0
SharpenedValue(img, x, y, sharpness) ==
    LET c == Luma(img, x, y)
        sum == Luma(img, x - 1, y) + Luma(img, x + 1, y)
               + Luma(img, x, y - 1) + Luma(img, x, y + 1)
        amount == (sharpness - 10) * 2
    IN  Clamp(40 * c + amount * (4 * c - sum), 0, 255 * 40) \div 40

\* the buffer has width >= 1 and height >= 1 here: every pixel outside the
\* kernel loops 1..height-1 x 1..width-1 is copied by the edge loops
adjust_sharpness(img, sharpness) ==
    IF sharpness <= 0 THEN img
    ELSE [img EXCEPT !.px = [i \in DOMAIN img.px |->
            LET x == XOf(i, img.w)
                y == YOf(i, img.w)
            IN  IF x >= 1 /\ x < img.w - 1 /\ y >= 1 /\ y < img.h - 1
                THEN <<SharpenedValue(img, x, y, sharpness), img.px[i][2]>>
                ELSE img.px[i]]]

----------------------------------------------------------------------------
(* Binarizer: binarization/mod.rs *)

\* threshold with ThresholdType::ToZero: a pixel above t keeps its value
thresholdToZero(g, t) == [i \in DOMAIN g |-> IF g[i] > t THEN g[i] ELSE 0]

\* threshold with >= for >: a pixel equal to t becomes white
thresholdInclusive(g, t) == [i \in DOMAIN g |-> IF g[i] >= t THEN 255 ELSE 0]

\* imageproc::contrast::threshold(gray, t, ThresholdType::Binary)
threshold(g, t) == [i \in DOMAIN g |-> IF g[i] > t THEN 255 ELSE 0]

RECURSIVE FracLess(_, _, _, _)
\* a/b < c/d for a, c >= 0 and b, d > 0, by continued fractions (no product
\* is formed, so nothing overflows)
FracLess(a, b, c, d) ==
    LET qa == a \div b
        qc == c \div d
        ra == a % b
        rc == c % d
    IN  IF qa # qc THEN qa < qc
        ELSE IF rc = 0 THEN FALSE
        ELSE IF ra = 0 THEN TRUE
        ELSE FracLess(d, rc, b, ra)

\* calculate_otsu_threshold with `variance >= max_variance`: the last t of
\* greatest variance wins, which is one below the gray level that follows the
\* last level of greatest variance
calculate_otsu_thresholdLast(g) ==
    LET total_pixels == Len(g)
        sum == SumSeq(g)
        present == {g[i] : i \in DOMAIN g}
        w_b(t) == Cardinality({i \in DOMAIN g : g[i] <= t})
        w_f(t) == total_pixels - w_b(t)
        sum_b(t) == SumSeq([i \in DOMAIN g |-> IF g[i] <= t THEN g[i] ELSE 0])
        n(t) == sum_b(t) * w_f(t) - (sum - sum_b(t)) * w_b(t)
        num(t) == n(t) * n(t)
        den(t) == w_b(t) * w_f(t)
        levels == {t \in present : w_f(t) # 0}
        best == CHOOSE t \in levels : \A u \in levels :
                    /\ u > t => FracLess(num(u), den(u), num(t), den(t))
                    /\ u < t => ~FracLess(num(t), den(t), num(u), den(u))
        following == CHOOSE v \in present :
                        v > best /\ \A u \in present : u > best => v <= u
    IN  IF levels = {} THEN 0 ELSE following - 1

\* the loop `for t in 0..256` of calculate_otsu_threshold.  w_b and sum_b
\* change only at a gray level t present in the image, so only there can
\* `variance > max_variance` hold; the loop breaks at the largest level,
\* where w_f = 0.  The between-class variance w_b * w_f * (m_b - m_f)^2 is the
\* fraction num / den, num = (sum_b * w_f - (sum - sum_b) * w_b)^2 and
\* den = w_b * w_f.  The result is the least level of greatest variance.
calculate_otsu_threshold(g) ==
    LET total_pixels == Len(g)
        sum == SumSeq(g)
        w_b(t) == Cardinality({i \in DOMAIN g : g[i] <= t})
        w_f(t) == total_pixels - w_b(t)
        sum_b(t) == SumSeq([i \in DOMAIN g |-> IF g[i] <= t THEN g[i] ELSE 0])
        n(t) == sum_b(t) * w_f(t) - (sum - sum_b(t)) * w_b(t)
        num(t) == n(t) * n(t)
        den(t) == w_b(t) * w_f(t)
        levels == {t \in {g[i] : i \in DOMAIN g} : w_f(t) # 0 /\ num(t) > 0}
    IN  IF levels = {} THEN 0
        ELSE CHOOSE t \in levels : \A u \in levels :
                /\ u < t => FracLess(num(u), den(u), num(t), den(t))
                /\ u > t => ~FracLess(num(t), den(t), num(u), den(u))

apply_otsu_threshold(img) ==
    LET gray == to_luma8(img)
    IN  FromLuma(img.w, img.h, threshold(gray, calculate_otsu_threshold(gray)))

\* mean = (sum / (width * height) as u64) as u8
apply_mean_threshold(img) ==
    LET gray == to_luma8(img)
    IN  FromLuma(img.w, img.h, threshold(gray, SumSeq(gray) \div (img.w * img.h)))

\* imageproc::contrast::adaptive_threshold(gray, block_radius): a pixel is
\* white when it is >= the integer mean of the block of that radius around
\* it, the block cut at the image edge.  The source passes block_size = 15
\* as the radius.
AdaptiveBlockMean(img, x, y, r) ==
    LET xs == Max(0, x - r)..Min(img.w - 1, x + r)
        ys == Max(0, y - r)..Min(img.h - 1, y + r)
        blk == {i \in DOMAIN img.px : XOf(i, img.w) \in xs /\ YOf(i, img.w) \in ys}
        sum == SumSeq([i \in DOMAIN img.px |-> IF i \in blk THEN img.px[i][1] ELSE 0])
    IN  sum \div Cardinality(blk)

apply_adaptive_threshold(img) ==
    FromLuma(img.w, img.h,
        [i \in DOMAIN img.px |->
            IF img.px[i][1] >= AdaptiveBlockMean(img, XOf(i, img.w), YOf(i, img.w), 15)
            THEN 255 ELSE 0])

\* The 15x15 window of apply_sauvola_threshold around (x, y) with clamped
\* coordinates: weight[i] is the number of (dx, dy) that land on pixel i.
SauvolaWeight(img, x, y, i) ==
    Multiplicity(x, XOf(i, img.w), img.w, 7) * Multiplicity(y, YOf(i, img.w), img.h, 7)

\* the Sauvola decision with the comparison turned round:
\* pixel_val < threshold
SauvolaWhiteInverted(img, x, y) ==
    LET wt == [i \in DOMAIN img.px |-> SauvolaWeight(img, x, y, i)]
        s == SumSeq([i \in DOMAIN img.px |-> wt[i] * img.px[i][1]])
        su == SumSeq([i \in DOMAIN img.px |-> wt[i] * (img.px[i][1] - 128)])
        qu == SumSeq([i \in DOMAIN img.px |->
                        wt[i] * (img.px[i][1] - 128) * (img.px[i][1] - 128)])
        d == 225 * qu - su * su
        m == 57600 * Luma(img, x, y) - 128 * s
    IN  m < (s * Isqrt(d)) \div 225

\* pixel_val > mean * (1 + k * (std_dev / r - 1)) with k = 0.5, r = 128,
\* count = 225, mean = s / 225, std_dev = sqrt(d) / 225 where
\* d = 225 * sq_sum - sum^2 (computed on v - 128, which leaves it unchanged).
\* Multiplied by 256 * 225: 57600 * p - 128 * s > s * sqrt(d) / 225.
\* sqrt(d) is rounded down to an integer, i.e. std_dev to a multiple of 1/225.
SauvolaWhite(img, x, y) ==
    LET wt == [i \in DOMAIN img.px |-> SauvolaWeight(img, x, y, i)]
        s == SumSeq([i \in DOMAIN img.px |-> wt[i] * img.px[i][1]])
        su == SumSeq([i \in DOMAIN img.px |-> wt[i] * (img.px[i][1] - 128)])
        qu == SumSeq([i \in DOMAIN img.px |->
                        wt[i] * (img.px[i][1] - 128) * (img.px[i][1] - 128)])
        d == 225 * qu - su * su
        m == 57600 * Luma(img, x, y) - 128 * s
    IN  m > 0 /\ m > (s * Isqrt(d)) \div 225

apply_sauvola_threshold(img) ==
    FromLuma(img.w, img.h,
        [i \in DOMAIN img.px |->
            IF SauvolaWhite(img, XOf(i, img.w), YOf(i, img.w)) THEN 255 ELSE 0])

\* imageproc::contrast::equalize_histogram: each intensity v is replaced by
\* min(255, 255 * cdf(v) / total) as u8
apply_clahe(img) ==
    LET gray == to_luma8(img)
        total == Len(gray)
    IN  FromLuma(img.w, img.h,
            [i \in DOMAIN gray |->
                (255 * Cardinality({j \in DOMAIN gray : gray[j] <= gray[i]})) \div total])

----------------------------------------------------------------------------
(* MorphologyEngine: morphology/mod.rs *)

\* the pixels of a w x h buffer within Chebyshev distance 1 of pixel i
Neighbourhood(w, h, i) ==
    {j \in 1..(w * h) : Abs(XOf(j, w) - XOf(i, w)) <= 1 /\ Abs(YOf(j, w) - YOf(i, w)) <= 1}

\* imageproc::morphology::erode(gray, Norm::LInf, 1): a pixel stays foreground
\* (255) when no background (zero) pixel of the image is within distance 1
erode(w, h, g) ==
    [i \in 1..(w * h) |-> IF \A j \in Neighbourhood(w, h, i) : g[j] # 0 THEN 255 ELSE 0]

\* imageproc::morphology::dilate(gray, Norm::LInf, 1): a pixel becomes
\* foreground (255) when a foreground (non-zero) pixel is within distance 1
dilate(w, h, g) ==
    [i \in 1..(w * h) |-> IF \E j \in Neighbourhood(w, h, i) : g[j] # 0 THEN 255 ELSE 0]

apply_erosion(img) == FromLuma(img.w, img.h, erode(img.w, img.h, to_luma8(img)))

apply_dilation(img) == FromLuma(img.w, img.h, dilate(img.w, img.h, to_luma8(img)))

\* opening with the two steps in the order of closing
apply_openingDilateFirst(img) ==
    FromLuma(img.w, img.h, erode(img.w, img.h, dilate(img.w, img.h, to_luma8(img))))

apply_opening(img) ==
    FromLuma(img.w, img.h, dilate(img.w, img.h, erode(img.w, img.h, to_luma8(img))))

apply_closing(img) ==
    FromLuma(img.w, img.h, erode(img.w, img.h, dilate(img.w, img.h, to_luma8(img))))

----------------------------------------------------------------------------
(* Denoiser: preprocessing/filters.rs.  The kernels are real-valued; the    *)
(* model uses them rounded to thousandths, so colour values are those of   *)
(* the source up to that rounding.  Alpha is computed as the source does.  *)

\* Gaussian kernel of sigma = 1.0 in thousandths (radius 2); 1.0 is the only
\* positive sigma of the explored parameters and of adaptive_preprocess
GaussianWeight(d) == CASE d = 0 -> 402 [] Abs(d) = 1 -> 244 [] Abs(d) = 2 -> 55

\* gaussian_blur_f32 on one channel, coordinates clamped at the edge
GaussianValue(img, x, y) ==
    SumSeq([k \in 1..25 |->
        LET dx == ((k - 1) % 5) - 2
            dy == ((k - 1) \div 5) - 2
        IN  GaussianWeight(dx) * GaussianWeight(dy)
            * Luma(img, ClampedCoord(x, dx, img.w), ClampedCoord(y, dy, img.h))])
    \div 1000000

\* the three colour channels are blurred, the alpha channel is copied
apply_gaussian_blur(img, sigma) ==
    [img EXCEPT !.px = [i \in DOMAIN img.px |->
        <<GaussianValue(img, XOf(i, img.w), YOf(i, img.w)), img.px[i][2]>>]]

\* 1000 * exp(-k / 10), rounded
ExpTable ==
    <<1000, 905, 819, 741, 670, 607, 549, 497, 449, 407, 368, 333, 301, 273,
      247, 223, 202, 183, 165, 150, 135, 122, 111, 100, 91, 82, 74, 67, 61,
      55, 50, 45, 41, 37, 33, 30, 27, 25, 22, 20, 18, 17, 15, 14, 12, 11, 10,
      9, 8, 7, 7, 6, 6, 5, 5, 4, 4, 3, 3, 3, 2, 2, 2, 2, 2, 2, 1, 1, 1, 1, 1,
      1, 1, 1, 1, 1, 1>>

\* space_weight * color_weight = exp(-(dx^2 + dy^2 + color_dist^2) / (2 * 75^2))
\* in thousandths; color_dist^2 = 3 * delta^2 for gray pixels
BilateralWeight(dx, dy, delta) ==
    LET k == ((dx * dx + dy * dy + 3 * delta * delta) * 10) \div 11250
    IN  IF k + 1 <= Len(ExpTable) THEN ExpTable[k + 1] ELSE 0

\* the radius-5 window around (x, y), coordinates clamped: <<weight, pixel>>
BilateralTaps(img, x, y) ==
    [k \in 1..121 |->
        LET dx == ((k - 1) % 11) - 5
            dy == ((k - 1) \div 11) - 5
            nb == get_pixel(img, ClampedCoord(x, dx, img.w), ClampedCoord(y, dy, img.h))
        IN  <<BilateralWeight(dx, dy, Luma(img, x, y) - nb[1]), nb>>]

\* (sum[i] / weight_sum) as u8 for the colour channels and for alpha
apply_bilateral_filter(img) ==
    [img EXCEPT !.px = [i \in DOMAIN img.px |->
        LET taps == BilateralTaps(img, XOf(i, img.w), YOf(i, img.w))
            weight_sum == SumSeq([k \in 1..121 |-> taps[k][1]])
        IN  <<SumSeq([k \in 1..121 |-> taps[k][1] * taps[k][2][1]]) \div weight_sum,
              SumSeq([k \in 1..121 |-> taps[k][1] * taps[k][2][2]]) \div weight_sum>>]]

----------------------------------------------------------------------------
(* GeometricCorrector: preprocessing/geometric.rs *)

\* h_proj[y] and v_proj[x]: sums of the gray values of a row and of a column
RowSum(img, y) == SumSeq([x \in 1..img.w |-> Luma(img, x - 1, y)])

ColSum(img, x) == SumSeq([y \in 1..img.h |-> Luma(img, x, y - 1)])

\* proj.iter().position(|&v| v > threshold).unwrap_or(0)
FirstAbove(S, dflt) == IF S = {} THEN dflt ELSE CHOOSE k \in S : \A j \in S : k <= j

\* proj.iter().rposition(|&v| v > threshold).unwrap_or(len - 1)
LastAbove(S, dflt) == IF S = {} THEN dflt ELSE CHOOSE k \in S : \A j \in S : k >= j

\* DynamicImage::crop_imm(x, y, width, height)
crop_imm(img, x0, y0, cw, ch) ==
    [w |-> cw, h |-> ch,
     px |-> [i \in 1..(cw * ch) |-> get_pixel(img, x0 + XOf(i, cw), y0 + YOf(i, cw))]]

\* the rectangle handed to crop_imm: the content rows and columns widened
\* by a margin, crop_width = crop_right - crop_left
CropRect(img) ==
    LET width == img.w
        height == img.h
        h_threshold == (width * 255) \div 10
        v_threshold == (height * 255) \div 10
        rows == {y \in 0..(height - 1) : RowSum(img, y) > h_threshold}
        cols == {x \in 0..(width - 1) : ColSum(img, x) > v_threshold}
        top == FirstAbove(rows, 0)
        bottom == LastAbove(rows, height - 1)
        left == FirstAbove(cols, 0)
        right == LastAbove(cols, width - 1)
        margin_x == Max(width \div 50, 2)
        margin_y == Max(height \div 50, 2)
        crop_left == Max(left - margin_x, 0)
        crop_top == Max(top - margin_y, 0)
        crop_right == Min(right + margin_x, width - 1)
        crop_bottom == Min(bottom + margin_y, height - 1)
    IN  [crop_left |-> crop_left, crop_top |-> crop_top,
         crop_width |-> crop_right - crop_left,
         crop_height |-> crop_bottom - crop_top]

\* the skip test with >= for >
BorderTooSmallInclusive(img, rect) ==
    rect.crop_width * rect.crop_height >= (img.w * img.h * 95) \div 100

\* if crop_width * crop_height > (width * height * 95 / 100)
BorderTooSmall(img, rect) ==
    rect.crop_width * rect.crop_height > (img.w * img.h * 95) \div 100

remove_borders(img) ==
    LET rect == CropRect(img)
    IN  IF BorderTooSmall(img, rect)
        THEN img
        ELSE crop_imm(img, rect.crop_left, rect.crop_top,
                      rect.crop_width, rect.crop_height)

\* LineDetectionOptions.vote_threshold
HoughVoteThreshold == 200

\* imageproc::hough::detect_lines over the Canny edge map, as the sequence of
\* the lines' angle_in_degrees (integers 0..179).  A line needs
\* vote_threshold votes and an edge pixel gives a line at most one vote, so a
\* buffer with fewer pixels than that has no line.  On a larger buffer the
\* result of the library is the input `lines`.
detect_lines(img) ==
    IF img.w * img.h < HoughVoteThreshold THEN <<>> ELSE lines

\* rotate_about_center(rgba, angle, Bilinear, white) by num / den degrees:
\* the rotated colour buffer is kept as a term of the source and the angle
rotate_about_center(img, num, den) == [rotated |-> img, num |-> num, den |-> den]

\* normalized_angle of correct_skew
NormalizedAngle(theta) ==
    IF theta > 45 /\ theta < 135 THEN theta - 90
    ELSE IF theta >= 135 THEN theta - 180
    ELSE theta

\* if normalized_angle.abs() < 45.0 { angles.push(normalized_angle) }
Kept(theta) == Abs(NormalizedAngle(theta)) < 45

\* `angles`: the normalized angles of the kept lines, in the order of `lines`
Angles(ls) ==
    LET kept == SelectSeq(ls, Kept)
    IN  [i \in 1..Len(kept) |-> NormalizedAngle(kept[i])]

\* correct_skew: avg_angle = sum / angles.len(); avg_angle.abs() < 0.5 is
\* 2 * |sum| < len; the rotation is by -avg_angle
correct_skew(img) ==
    LET ls == detect_lines(img)
        angles == Angles(ls)
        sum == SumSeq(angles)
    IN  IF ls = <<>> THEN img
        ELSE IF angles = <<>> THEN img
        ELSE IF 2 * Abs(sum) < Len(angles) THEN img
        ELSE rotate_about_center(img, -sum, Len(angles))

\* the candidates of a search in steps of one degree
CandidateAnglesWholeDegrees == [i \in 1..21 |-> 10 * (i - 11)]

\* for angle_tenths in -100..=100, in the order of the loop
CandidateAngles == [i \in 1..201 |-> i - 101]

\* round(100000 * sin(t / 10 degrees)), t = 0..100, at index t + 1
SinTable ==
    <<0, 175, 349, 524, 698, 873, 1047, 1222, 1396, 1571,
       1745, 1920, 2094, 2269, 2443, 2618, 2792, 2967, 3141, 3316,
       3490, 3664, 3839, 4013, 4188, 4362, 4536, 4711, 4885, 5059,
       5234, 5408, 5582, 5756, 5931, 6105, 6279, 6453, 6627, 6802,
       6976, 7150, 7324, 7498, 7672, 7846, 8020, 8194, 8368, 8542,
       8716, 8889, 9063, 9237, 9411, 9585, 9758, 9932, 10106, 10279,
       10453, 10626, 10800, 10973, 11147, 11320, 11494, 11667, 11840, 12014,
       12187, 12360, 12533, 12706, 12880, 13053, 13226, 13399, 13572, 13744,
       13917, 14090, 14263, 14436, 14608, 14781, 14954, 15126, 15299, 15471,
       15643, 15816, 15988, 16160, 16333, 16505, 16677, 16849, 17021, 17193,
       17365>>

\* round(100000 * cos(t / 10 degrees)), t = 0..100, at index t + 1
CosTable ==
    <<100000, 100000, 99999, 99999, 99998, 99996, 99995, 99993, 99990, 99988,
       99985, 99982, 99978, 99974, 99970, 99966, 99961, 99956, 99951, 99945,
       99939, 99933, 99926, 99919, 99912, 99905, 99897, 99889, 99881, 99872,
       99863, 99854, 99844, 99834, 99824, 99813, 99803, 99792, 99780, 99768,
       99756, 99744, 99731, 99719, 99705, 99692, 99678, 99664, 99649, 99635,
       99619, 99604, 99588, 99572, 99556, 99540, 99523, 99506, 99488, 99470,
       99452, 99434, 99415, 99396, 99377, 99357, 99337, 99317, 99297, 99276,
       99255, 99233, 99211, 99189, 99167, 99144, 99122, 99098, 99075, 99051,
       99027, 99002, 98978, 98953, 98927, 98902, 98876, 98849, 98823, 98796,
       98769, 98741, 98714, 98686, 98657, 98629, 98600, 98570, 98541, 98511,
       98481>>

Sin(t) == IF t < 0 THEN -SinTable[1 - t] ELSE SinTable[t + 1]

Cos(t) == CosTable[Abs(t) + 1]

\* imageproc's rotate_about_center(image, theta, ..) warps about the centre
\* (w / 2, h / 2): the output pixel (x, y) samples the source at the point
\* rotated back by theta.  Coordinates are in 1/200000 of a pixel.
SourceX(w, h, x, y, t) == w * 100000 + Cos(t) * (2 * x - w) + Sin(t) * (2 * y - h)

SourceY(w, h, x, y, t) == h * 100000 - Sin(t) * (2 * x - w) + Cos(t) * (2 * y - h)

\* rotated.get_pixel(x, y).0[0] == 0 for the binary plane g rotated by t
\* tenths of a degree with the default Luma([255]): interpolate_bilinear
\* gives the default unless the four neighbours left, left + 1, top, top + 1
\* are inside the image, else their blend, which `as u8` truncates to 0 when
\* it is below 1.  The weights are in thousandths.
RotatedIsInk(g, w, h, x, y, t) ==
    LET sx == SourceX(w, h, x, y, t)
        sy == SourceY(w, h, x, y, t)
        left == sx \div 200000
        top == sy \div 200000
        right_weight == (sx % 200000) \div 200
        bottom_weight == (sy % 200000) \div 200
        at(cx, cy) == g[cy * w + cx + 1]
    IN  IF left < 0 \/ left + 1 >= w \/ top < 0 \/ top + 1 >= h THEN FALSE
        ELSE LET top_row == (1000 - right_weight) * at(left, top)
                                + right_weight * at(left + 1, top)
                 bottom_row == (1000 - right_weight) * at(left, top + 1)
                                + right_weight * at(left + 1, top + 1)
             IN  (1000 - bottom_weight) * top_row + bottom_weight * bottom_row
                    < 1000000

\* projection[y]: the number of zero pixels of row y of the rotated plane
Projection(g, w, h, t) ==
    [r \in 1..h |-> Cardinality({x \in 0..(w - 1) : RotatedIsInk(g, w, h, x, r - 1, t)})]

\* the variance of the projection times h * h: h * sum(v^2) - (sum v)^2.
\* h is the same for every candidate, so comparing these compares variances.
ProjectionVariance(g, w, h, t) ==
    LET projection == Projection(g, w, h, t)
        total == SumSeq(projection)
    IN  h * SumSeq([r \in 1..h |-> projection[r] * projection[r]]) - total * total

RECURSIVE SearchAngles(_, _, _, _, _, _)
\* the loop over the candidates lo..hi, by halves: a later candidate
\* replaces an earlier one only `if variance > max_variance`
SearchAngles(g, w, h, cands, lo, hi) ==
    IF lo = hi
    THEN [max_variance |-> ProjectionVariance(g, w, h, cands[lo]), best_angle |-> cands[lo]]
    ELSE LET mid == (lo + hi) \div 2
             first == SearchAngles(g, w, h, cands, lo, mid)
             second == SearchAngles(g, w, h, cands, mid + 1, hi)
         IN  IF second.max_variance > first.max_variance THEN second ELSE first

\* the search written with `variance >= max_variance`
SearchResultInclusive(found) == found.best_angle

\* max_variance = 0.0 and best_angle = 0.0 before the loop: a candidate is
\* taken only when its variance is above 0
SearchResult(found) == IF found.max_variance > 0 THEN found.best_angle ELSE 0

\* the binary plane of correct_skew_projection
SkewBinary(img) ==
    LET gray == to_luma8(img)
    IN  threshold(gray, calculate_otsu_threshold(gray))

\* the angle search of correct_skew_projection, best_angle in tenths of a
\* degree.  When the Otsu-binarized image has no ink (no zero pixel), every
\* rotated candidate is all white, every projection variance is 0.0,
\* `variance > max_variance` never holds and best_angle stays 0.0; the
\* candidates are not evaluated then.
ProjectionBestAngle(img) ==
    LET binary == SkewBinary(img)
    IN  IF \A i \in DOMAIN binary : binary[i] # 0 THEN 0
        ELSE SearchResult(SearchAngles(binary, img.w, img.h, CandidateAngles,
                                       1, Len(CandidateAngles)))

\* best_angle in tenths of a degree; best_angle.abs() < 0.3 returns the clone
correct_skew_projection(img) ==
    LET best_angle == ProjectionBestAngle(img)
    IN  IF Abs(best_angle) < 3 THEN img ELSE rotate_about_center(img, -best_angle, 10)

\* the calls of rotate_about_center one operation makes on img
RotationCalls(op, img) ==
    CASE op = "correct_skew" -> IF correct_skew(img) = img THEN 0 ELSE 1
      [] op = "correct_skew_projection" ->
            Len(CandidateAngles) + (IF correct_skew_projection(img) = img THEN 0 ELSE 1)
      [] OTHER -> 0

----------------------------------------------------------------------------
(* QualityAssessor: quality/mod.rs.  width and height are u32: a            *)
(* subtraction below zero panics in a debug build and wraps modulo 2^32 in *)
(* a release build.  Scores are in thousandths, rounded down.              *)

Builds == {"debug", "release"}

\* the 3x3 Laplacian response at an interior pixel
Laplacian(img, x, y) ==
    9 * Luma(img, x, y)
    - SumSeq([k \in 1..9 |-> Luma(img, x + ((k - 1) % 3) - 1, y + ((k - 1) \div 3) - 1)])

\* laplacian_sum over 1..height-1 x 1..width-1 (empty when a side is below 3)
LaplacianSum(img) ==
    SumSeq([k \in 1..(Max(img.w - 2, 0) * Max(img.h - 2, 0)) |->
        LET x == 1 + ((k - 1) % (img.w - 2))
            y == 1 + ((k - 1) \div (img.w - 2))
        IN  Laplacian(img, x, y) * Laplacian(img, x, y)])

\* ((width - 2) * (height - 2)) as f32 is zero: the factors are u32, a side
\* of 1 wraps to 2^32 - 1 and the product wraps again, so it is zero exactly
\* when a side is 2
BlurDivisorIsZero(img) == img.w = 2 \/ img.h = 2

\* (laplacian_var / 1000.0).min(100.0); 0.0 / 0.0 is NaN and NaN.min(100.0)
\* is 100.0; with a side below 3 the sum is 0.0 and a non-zero divisor gives 0
blur_score(img) ==
    IF BlurDivisorIsZero(img) THEN 100000
    ELSE IF img.w < 3 \/ img.h < 3 THEN 0
    ELSE Min(LaplacianSum(img) \div ((img.w - 2) * (img.h - 2)), 100000)

\* n * sum(u^2) - sum(u)^2 for the values u = v - 128 of a sequence:
\* n^2 times the variance, which the shift by 128 does not change
ScaledVariance(g) ==
    LET s == SumSeq([i \in DOMAIN g |-> g[i] - 128])
        q == SumSeq([i \in DOMAIN g |-> (g[i] - 128) * (g[i] - 128)])
    IN  Len(g) * q - s * s

\* (std_dev / 2.55).min(100.0)
contrast_score(img) ==
    LET gray == to_luma8(img)
    IN  Min((Isqrt(ScaledVariance(gray)) * 100000) \div (255 * Len(gray)), 100000)

\* mean = sum / pixel_count
brightness_level(img) ==
    LET gray == to_luma8(img)
    IN  (SumSeq(gray) * 1000) \div Len(gray)

\* the sample positions of one axis: (window..n - window).step_by(5); for
\* n < 3 the upper end wraps and the range runs far beyond the buffer
SampleRangeWraps(n) == n < 3

SampleRangeEmpty(n) == n >= 3 /\ n <= 6

SamplePositions(n) == {c \in 3..(n - 4) : (c - 3) % 5 = 0}

\* the standard deviation of the 7x7 window centred at (x, y)
LocalStdDev(img, x, y) ==
    LET win == [k \in 1..49 |-> Luma(img, x + ((k - 1) % 7) - 3, y + ((k - 1) \div 7) - 3)]
    IN  (Isqrt(49 * ScaledVariance(win)) * 1000) \div 343

RECURSIVE SumOver(_, _, _)
\* noise_sum: the sum of LocalStdDev over a set of sample positions
SumOver(img, S, acc) ==
    IF S = {} THEN acc
    ELSE LET s == CHOOSE t \in S : TRUE
         IN  SumOver(img, S \ {s}, acc + LocalStdDev(img, s[1], s[2]))

\* samples = ((height - 6) / 5) * ((width - 6) / 5) in u32.  A side below 6
\* wraps to 0x33333332 or 0x33333333 after the division; the product of two
\* such values, or of one with a factor below 2^31, is non-zero modulo 2^32
\* unless the other factor is zero.
SamplesFactorWraps(n) == n < 6

SamplesFactorIsZero(n) == n >= 6 /\ n <= 10

SamplesIsZero(img) == SamplesFactorIsZero(img.w) \/ SamplesFactorIsZero(img.h)

\* samples, for sides of 6 and more
samples(img) == ((img.h - 6) \div 5) * ((img.w - 6) \div 5)

\* (noise_sum / samples as f32).min(100.0): NaN and +inf both give 100.0
noise_level(img) ==
    IF SamplesIsZero(img) THEN 100000
    ELSE IF SamplesFactorWraps(img.w) \/ SamplesFactorWraps(img.h) THEN 0
    ELSE Min(SumOver(img, SamplePositions(img.w) \X SamplePositions(img.h), 0)
                \div samples(img), 100000)

\* a u32 subtraction goes below zero: height - 1, width - 1, width - 2,
\* height - 2, height - window, width - window (evaluated in the body of the
\* y loop), height - 2 * window, width - 2 * window
IndexUnderflows(img) == img.w < 6 \/ img.h < 6

\* a wrapped sample range is walked: get_pixel is called with a coordinate
\* outside the buffer and panics
ReadsOutsideBuffer(img) ==
    /\ ~SampleRangeEmpty(img.w)
    /\ ~SampleRangeEmpty(img.h)
    /\ SampleRangeWraps(img.w) \/ SampleRangeWraps(img.h)

AssessPanics(img, b) ==
    IF b = "debug" THEN IndexUnderflows(img) ELSE ReadsOutsideBuffer(img)

assess_image_quality(img) ==
    [blur_score |-> blur_score(img),
     contrast_score |-> contrast_score(img),
     noise_level |-> noise_level(img),
     brightness_level |-> brightness_level(img)]

----------------------------------------------------------------------------
(* AdaptiveController: the rules of ocr::adaptive_preprocess.  m is the     *)
(* metrics record; the second argument is the value of the base parameters *)

\* the blur rule with the comparisons <= 30.0 and <= 50.0
DeriveSharpnessInclusive(m, sharpness) ==
    IF m.blur_score <= 30000 THEN 20
    ELSE IF m.blur_score <= 50000 THEN 15
    ELSE sharpness

\* 1. Handle blurry images
DeriveSharpness(m, sharpness) ==
    IF m.blur_score < 30000 THEN 20
    ELSE IF m.blur_score < 50000 THEN 15
    ELSE sharpness

\* 2. Handle low contrast
DeriveUseClahe(m, use_clahe) ==
    IF m.contrast_score < 40000 THEN TRUE ELSE use_clahe

DeriveContrast(m, contrast) ==
    IF m.contrast_score < 40000 THEN 15
    ELSE IF m.contrast_score < 60000 THEN 13
    ELSE contrast

\* 3. Handle noisy images
DeriveBilateral(m, bilateral_filter) ==
    IF m.noise_level > 20000 THEN TRUE ELSE bilateral_filter

DeriveMorphology(m, morphology) ==
    IF m.noise_level > 20000 THEN "opening" ELSE morphology

DeriveGaussian(m, gaussian_blur) ==
    IF m.noise_level > 20000 THEN gaussian_blur
    ELSE IF m.noise_level > 12000 THEN 10
    ELSE gaussian_blur

\* 4. Handle brightness issues
DeriveBrightness(m, brightness) ==
    IF m.brightness_level < 80000 THEN 2
    ELSE IF m.brightness_level > 200000 THEN -1
    ELSE brightness

\* the binarization rule with the two conditions tested one after the other
DeriveBinarizationInOrder(m, binarization_method) ==
    IF (m.brightness_level < 100000 \/ m.brightness_level > 180000)
       /\ binarization_method # "none"
    THEN "sauvola"
    ELSE IF binarization_method = "none" THEN "otsu" ELSE binarization_method

\* 5. Choose optimal binarization method
DeriveBinarization(m, binarization_method) ==
    IF m.brightness_level < 100000 \/ m.brightness_level > 180000
    THEN IF binarization_method # "none" THEN "sauvola" ELSE binarization_method
    ELSE IF binarization_method = "none" THEN "otsu" ELSE binarization_method

\* the parameter copy without `adaptive_mode: false`
AdaptiveParamsKeepFlag(m, base_params) ==
    [base_params EXCEPT
        !.contrast = DeriveContrast(m, base_params.contrast),
        !.brightness = DeriveBrightness(m, base_params.brightness),
        !.sharpness = DeriveSharpness(m, base_params.sharpness),
        !.binarization_method = DeriveBinarization(m, base_params.binarization_method),
        !.use_clahe = DeriveUseClahe(m, base_params.use_clahe),
        !.gaussian_blur = DeriveGaussian(m, base_params.gaussian_blur),
        !.bilateral_filter = DeriveBilateral(m, base_params.bilateral_filter),
        !.morphology = DeriveMorphology(m, base_params.morphology)]

\* let mut params = ProcessingParams { .. } followed by the five rules
AdaptiveParams(m, base_params) ==
    [contrast |-> DeriveContrast(m, base_params.contrast),
     brightness |-> DeriveBrightness(m, base_params.brightness),
     sharpness |-> DeriveSharpness(m, base_params.sharpness),
     binarization_method |-> DeriveBinarization(m, base_params.binarization_method),
     use_clahe |-> DeriveUseClahe(m, base_params.use_clahe),
     gaussian_blur |-> DeriveGaussian(m, base_params.gaussian_blur),
     bilateral_filter |-> DeriveBilateral(m, base_params.bilateral_filter),
     morphology |-> DeriveMorphology(m, base_params.morphology),
     language |-> base_params.language,
     correct_skew |-> base_params.correct_skew,
     skew_method |-> base_params.skew_method,
     remove_borders |-> base_params.remove_borders,
     adaptive_mode |-> FALSE]

----------------------------------------------------------------------------
(* PipelineOrchestrator: ocr::preprocess_image.  Each stage is the list of *)
(* operations its guard lets run, in the order of the source text.         *)

BordersOps(p) == IF p.remove_borders THEN <<"remove_borders">> ELSE <<>>

SkewOps(p) ==
    IF p.correct_skew
    THEN IF p.skew_method = "projection"
         THEN <<"correct_skew_projection">>
         ELSE <<"correct_skew">>
    ELSE <<>>

\* the denoise stage with two independent `if`s instead of `if .. else if`
DenoiseOpsIndependent(p) ==
    (IF p.bilateral_filter THEN <<"apply_bilateral_filter">> ELSE <<>>)
    \o (IF p.gaussian_blur > 0 THEN <<"apply_gaussian_blur">> ELSE <<>>)

DenoiseOps(p) ==
    IF p.bilateral_filter THEN <<"apply_bilateral_filter">>
    ELSE IF p.gaussian_blur > 0 THEN <<"apply_gaussian_blur">>
    ELSE <<>>

BrightnessOps(p) == IF p.brightness # 0 THEN <<"adjust_brightness">> ELSE <<>>

ContrastOps(p) == IF p.contrast # 10 THEN <<"adjust_contrast">> ELSE <<>>

\* the sharpness stage with the guard `>= 1.0`
SharpnessOpsInclusive(p) == IF p.sharpness >= 10 THEN <<"adjust_sharpness">> ELSE <<>>

SharpnessOps(p) == IF p.sharpness > 10 THEN <<"adjust_sharpness">> ELSE <<>>

ClaheOps(p) == IF p.use_clahe THEN <<"apply_clahe">> ELSE <<>>

MorphologyOps(p) ==
    CASE p.morphology = "erode" -> <<"apply_erosion">>
      [] p.morphology = "dilate" -> <<"apply_dilation">>
      [] p.morphology = "opening" -> <<"apply_opening">>
      [] p.morphology = "closing" -> <<"apply_closing">>
      [] OTHER -> <<>>

BinarizationOps(p) ==
    CASE p.binarization_method = "adaptive" -> <<"apply_adaptive_threshold">>
      [] p.binarization_method = "otsu" -> <<"apply_otsu_threshold">>
      [] p.binarization_method = "mean" -> <<"apply_mean_threshold">>
      [] p.binarization_method = "sauvola" -> <<"apply_sauvola_threshold">>
      [] OTHER -> <<>>

\* the stages with binarization moved before morphology
StageOrderBinarizeEarly ==
    <<"borders", "skew", "denoise", "brightness", "contrast", "sharpness",
      "clahe", "binarization", "morphology">>

\* the stages in the order of the source text of preprocess_image
StageOrder ==
    <<"borders", "skew", "denoise", "brightness", "contrast", "sharpness",
      "clahe", "morphology", "binarization">>

StageOps(stage, p) ==
    CASE stage = "borders" -> BordersOps(p)
      [] stage = "skew" -> SkewOps(p)
      [] stage = "denoise" -> DenoiseOps(p)
      [] stage = "brightness" -> BrightnessOps(p)
      [] stage = "contrast" -> ContrastOps(p)
      [] stage = "sharpness" -> SharpnessOps(p)
      [] stage = "clahe" -> ClaheOps(p)
      [] stage = "morphology" -> MorphologyOps(p)
      [] stage = "binarization" -> BinarizationOps(p)

\* processed = <operation>(&processed, ..)
ApplyOp(op, p, img) ==
    CASE op = "remove_borders" -> remove_borders(img)
      [] op = "correct_skew" -> correct_skew(img)
      [] op = "correct_skew_projection" -> correct_skew_projection(img)
      [] op = "apply_bilateral_filter" -> apply_bilateral_filter(img)
      [] op = "apply_gaussian_blur" -> apply_gaussian_blur(img, p.gaussian_blur)
      [] op = "adjust_brightness" -> adjust_brightness(img, p.brightness)
      [] op = "adjust_contrast" -> adjust_contrast(img, p.contrast)
      [] op = "adjust_sharpness" -> adjust_sharpness(img, p.sharpness)
      [] op = "apply_clahe" -> apply_clahe(img)
      [] op = "apply_erosion" -> apply_erosion(img)
      [] op = "apply_dilation" -> apply_dilation(img)
      [] op = "apply_opening" -> apply_opening(img)
      [] op = "apply_closing" -> apply_closing(img)
      [] op = "apply_adaptive_threshold" -> apply_adaptive_threshold(img)
      [] op = "apply_otsu_threshold" -> apply_otsu_threshold(img)
      [] op = "apply_mean_threshold" -> apply_mean_threshold(img)
      [] op = "apply_sauvola_threshold" -> apply_sauvola_threshold(img)

RECURSIVE ApplyOps(_, _, _)
ApplyOps(ops, p, img) ==
    IF ops = <<>> THEN img ELSE ApplyOps(Tail(ops), p, ApplyOp(Head(ops), p, img))

RECURSIVE StageRotations(_, _, _)
\* the calls of rotate_about_center the operations of one stage make
StageRotations(ops, p, img) ==
    IF ops = <<>> THEN 0
    ELSE RotationCalls(Head(ops), img)
            + StageRotations(Tail(ops), p, ApplyOp(Head(ops), p, img))

RECURSIVE RunStages(_, _, _)
RunStages(stages, p, img) ==
    IF stages = <<>> THEN img
    ELSE RunStages(Tail(stages), p, ApplyOps(StageOps(Head(stages), p), p, img))

\* the value preprocess_image returns: Ok(processed)
preprocess_image(img, p) == [outcome |-> "ok", image |-> RunStages(StageOrder, p, img)]

\* the value adaptive_preprocess returns in build b, or the panic of the
\* quality assessment
adaptive_preprocess(img, base_params, b) ==
    IF AssessPanics(img, b) THEN [outcome |-> "panic", image |-> img]
    ELSE preprocess_image(img, AdaptiveParams(assess_image_quality(img), base_params))

----------------------------------------------------------------------------
(* The explored inputs *)

Patterns == {"flat", "checker", "ramp"}

\* the pixel <<gray value, alpha>> of a test pattern at (x, y)
PatternPixel(pat, x, y) ==
    CASE pat = "flat" -> <<200, 255>>
      [] pat = "checker" ->
            <<IF x = 0 /\ y = 0 THEN 100 ELSE IF (x + y) % 2 = 0 THEN 0 ELSE 255, 255>>
      [] pat = "ramp" -> <<(x * 70 + y * 40 + 10) % 256, IF x = 0 THEN 128 ELSE 255>>
      [] pat = "page" -> <<IF x < 3 THEN 132 ELSE 100, 255>>
      [] pat = "board" -> <<IF (x + y) % 2 = 0 THEN 0 ELSE 255, 255>>
      [] pat = "black" -> <<0, 255>>
      [] pat = "framed" ->
            <<IF x >= 10 /\ x < 30 /\ y >= 10 /\ y < 30 THEN 255 ELSE 0, 255>>

MakeImage(pat, w, h) ==
    [w |-> w, h |-> h,
     px |-> [i \in 1..(w * h) |-> PatternPixel(pat, XOf(i, w), YOf(i, w))]]

SmallImages == {MakeImage(pat, w, h) : pat \in Patterns, w \in 1..MaxDim, h \in 1..MaxDim}

\* a buffer large enough for the noise estimate to take a sample
NoisyPage == MakeImage("page", 11, 11)

Images == SmallImages \cup {NoisyPage}

\* every stage disabled
AllOff ==
    [contrast |-> 10, brightness |-> 0, sharpness |-> 10,
     binarization_method |-> "none", use_clahe |-> FALSE, gaussian_blur |-> 0,
     bilateral_filter |-> FALSE, morphology |-> "none", language |-> "eng",
     correct_skew |-> FALSE, skew_method |-> "hough", remove_borders |-> FALSE,
     adaptive_mode |-> FALSE]

\* every stage enabled
AllOn ==
    [contrast |-> 13, brightness |-> 2, sharpness |-> 20,
     binarization_method |-> "otsu", use_clahe |-> TRUE, gaussian_blur |-> 10,
     bilateral_filter |-> TRUE, morphology |-> "opening", language |-> "eng",
     correct_skew |-> TRUE, skew_method |-> "hough", remove_borders |-> TRUE,
     adaptive_mode |-> FALSE]

FieldValues ==
    [contrast |-> {5, 10, 13},
     brightness |-> {-1, 0, 2},
     sharpness |-> {5, 10, 15, 20},
     binarization_method |-> {"none", "adaptive", "otsu", "mean", "sauvola", "bogus"},
     use_clahe |-> BOOLEAN,
     gaussian_blur |-> {-5, 0, 10},
     bilateral_filter |-> BOOLEAN,
     morphology |-> {"none", "erode", "dilate", "opening", "closing", "bogus"},
     correct_skew |-> BOOLEAN,
     skew_method |-> {"hough", "projection"},
     remove_borders |-> BOOLEAN]

\* the settings that differ from a given setting in at most one field
Variations(corner) ==
    UNION {{[corner EXCEPT ![f] = v] : v \in FieldValues[f]} : f \in DOMAIN FieldValues}

\* the settings within two field changes of a corner, with either mode
SmallParams ==
    {[p EXCEPT !.adaptive_mode = a] :
        p \in UNION {Variations(q) : q \in Variations(AllOff) \cup Variations(AllOn)},
        a \in BOOLEAN}

\* the settings explored on NoisyPage
PageParams ==
    {[AllOff EXCEPT !.adaptive_mode = TRUE, !.binarization_method = "mean",
                    !.bilateral_filter = b, !.gaussian_blur = g] :
        b \in BOOLEAN, g \in {0, 10}}

\* every pixel has the same non-zero gray value
FlatNonBlack(img) ==
    \A i \in DOMAIN img.px : img.px[i][1] = img.px[1][1] /\ img.px[i][1] > 0

\* the pairs of buffer and setting the model explores: border removal is
\* given a buffer it can crop to a non-empty one, and the projection search
\* a buffer without ink
Admissible(img, p) ==
    /\ IF img = NoisyPage THEN p \in PageParams ELSE p \in SmallParams
    /\ p.remove_borders => img.w >= 2 /\ img.h >= 2
    /\ p.correct_skew /\ p.skew_method = "projection" => FlatNonBlack(img)

----------------------------------------------------------------------------
(* The state machine *)

NoMetrics == "not_assessed"

Init ==
    /\ input \in Images
    /\ base \in SmallParams \cup PageParams
    /\ Admissible(input, base)
    /\ build = "either"
    /\ pc = "start"
    /\ stack = <<>>
    /\ params = base
    /\ metrics = NoMetrics
    /\ processed = input
    /\ ran = <<>>
    /\ outcome = "running"
    /\ calls = 0
    /\ assessed = 0
    /\ lines = <<>>
    /\ rotations = 0

StageIndex(stage) == CHOOSE i \in 1..Len(StageOrder) : StageOrder[i] = stage

NextPc(stage) ==
    IF StageIndex(stage) = Len(StageOrder) THEN "return"
    ELSE StageOrder[StageIndex(stage) + 1]

\* the caller invokes preprocess_image(img, &params)
EnterPreprocess ==
    /\ pc = "start"
    /\ ~base.adaptive_mode
    /\ stack' = <<"preprocess_image">>
    /\ params' = base
    /\ processed' = input
    /\ calls' = calls + 1
    /\ pc' = Head(StageOrder)
    /\ UNCHANGED <<build, input, lines, base, metrics, ran, outcome, assessed, rotations>>

\* the caller invokes adaptive_preprocess(img, &params)
EnterAdaptive ==
    /\ pc = "start"
    /\ base.adaptive_mode
    /\ stack' = <<"adaptive_preprocess">>
    /\ pc' = "assess"
    /\ UNCHANGED <<build, input, lines, base, params, metrics, processed, ran, outcome, calls, assessed, rotations>>

\* let metrics = assess_image_quality(&img), in a debug or a release build
AssessQuality ==
    /\ pc = "assess"
    /\ \E b \in Builds :
        /\ build' = b
        /\ IF AssessPanics(input, b)
           THEN /\ outcome' = "panic"
                /\ pc' = "done"
                /\ stack' = <<>>
                /\ metrics' = metrics
           ELSE /\ metrics' = assess_image_quality(input)
                /\ pc' = "derive"
                /\ UNCHANGED <<outcome, stack>>
    /\ assessed' = assessed + 1
    /\ UNCHANGED <<input, lines, base, params, processed, ran, calls, rotations>>

\* the five rules, then preprocess_image(img, &params)
DeriveAndCall ==
    /\ pc = "derive"
    /\ params' = AdaptiveParams(metrics, base)
    /\ stack' = Append(stack, "preprocess_image")
    /\ processed' = input
    /\ calls' = calls + 1
    /\ pc' = Head(StageOrder)
    /\ UNCHANGED <<build, input, lines, base, metrics, ran, outcome, assessed, rotations>>

\* one stage of preprocess_image: its guard, and the operations it lets run
RunStage(stage) ==
    /\ pc = stage
    /\ processed' = ApplyOps(StageOps(stage, params), params, processed)
    /\ ran' = ran \o StageOps(stage, params)
    /\ rotations' = rotations + StageRotations(StageOps(stage, params), params, processed)
    /\ pc' = NextPc(stage)
    /\ UNCHANGED <<build, input, lines, base, stack, params, metrics, outcome, calls, assessed>>

BordersStage == RunStage("borders")

SkewStage == RunStage("skew")

DenoiseStage == RunStage("denoise")

BrightnessStage == RunStage("brightness")

ContrastStage == RunStage("contrast")

SharpnessStage == RunStage("sharpness")

ClaheStage == RunStage("clahe")

MorphologyStage == RunStage("morphology")

BinarizationStage == RunStage("binarization")

\* Ok(processed): preprocess_image returns to its caller
ReturnPreprocess ==
    /\ pc = "return"
    /\ stack' = SubSeq(stack, 1, Len(stack) - 1)
    /\ IF Len(stack) = 1
       THEN pc' = "done" /\ outcome' = "ok"
       ELSE pc' = "return_adaptive" /\ outcome' = outcome
    /\ UNCHANGED <<build, input, lines, base, params, metrics, processed, ran, calls, assessed, rotations>>

\* adaptive_preprocess returns the value of its tail call
ReturnAdaptive ==
    /\ pc = "return_adaptive"
    /\ stack' = <<>>
    /\ pc' = "done"
    /\ outcome' = "ok"
    /\ UNCHANGED <<build, input, lines, base, params, metrics, processed, ran, calls, assessed, rotations>>

Next ==
    \/ EnterPreprocess
    \/ EnterAdaptive
    \/ AssessQuality
    \/ DeriveAndCall
    \/ BordersStage
    \/ SkewStage
    \/ DenoiseStage
    \/ BrightnessStage
    \/ ContrastStage
    \/ SharpnessStage
    \/ ClaheStage
    \/ MorphologyStage
    \/ BinarizationStage
    \/ ReturnPreprocess
    \/ ReturnAdaptive

Spec == Init /\ [][Next]_vars

----------------------------------------------------------------------------
(* The rules of adaptive_preprocess as a function of the metrics: the      *)
(* assessment has returned, with metrics at and around every threshold     *)

BlurValues == {0, 29999, 30000, 49999, 50000}

ContrastValues == {0, 39999, 40000, 59999, 60000}

NoiseValues == {0, 12000, 12001, 20000, 20001}

BrightnessValues ==
    {0, 79999, 80000, 99999, 100000, 180000, 180001, 200000, 200001, 255000}

MetricsSpace ==
    [blur_score : BlurValues, contrast_score : ContrastValues,
     noise_level : NoiseValues, brightness_level : BrightnessValues]

DeriveBases ==
    {[corner EXCEPT !.adaptive_mode = TRUE, !.brightness = b, !.binarization_method = m] :
        corner \in {AllOff, AllOn}, b \in {-1, 0, 2, 5},
        m \in {"none", "otsu", "sauvola", "bogus"}}

InitDerive ==
    /\ input = NoisyPage
    /\ base \in DeriveBases
    /\ metrics \in MetricsSpace
    /\ build = "release"
    /\ pc = "derive"
    /\ stack = <<"adaptive_preprocess">>
    /\ params = base
    /\ processed = input
    /\ ran = <<>>
    /\ outcome = "running"
    /\ calls = 0
    /\ assessed = 1
    /\ lines = <<>>
    /\ rotations = 0

NextDerive == DeriveAndCall

SpecDerive == InitDerive /\ [][NextDerive]_vars

----------------------------------------------------------------------------
(* Properties *)

Range(seq) == {seq[i] : i \in DOMAIN seq}

Last(seq) == seq[Len(seq)]

Denoisers == {"apply_bilateral_filter", "apply_gaussian_blur"}

Binarizers ==
    {"apply_adaptive_threshold", "apply_otsu_threshold", "apply_mean_threshold",
     "apply_sauvola_threshold"}

\* the position of an operation's stage in the order the pipeline documents
StageRank(op) ==
    CASE op = "remove_borders" -> 1
      [] op \in {"correct_skew", "correct_skew_projection"} -> 2
      [] op \in Denoisers -> 3
      [] op = "adjust_brightness" -> 4
      [] op = "adjust_contrast" -> 5
      [] op = "adjust_sharpness" -> 6
      [] op = "apply_clahe" -> 7
      [] op \in {"apply_erosion", "apply_dilation", "apply_opening", "apply_closing"} -> 8
      [] op \in Binarizers -> 9

\* C1: the operations that have run belong to strictly later stages of the
\* order border removal, skew correction, denoise, brightness, contrast,
\* sharpness, contrast enhancement, morphology, binarization: no stage runs
\* twice and none runs after a later one.
C1_FixedStageOrder ==
    \A i, j \in DOMAIN ran : i < j => StageRank(ran[i]) < StageRank(ran[j])

\* a finished run in which all nine stages ran
C1_Witness == pc = "done" /\ outcome = "ok" /\ Len(ran) = Len(StageOrder)

\* C2: when preprocess_image has returned and its binarization_method is
\* adaptive, otsu, mean or sauvola, the last operation that ran is that
\* binarizer and every pixel of the result is (0,0,0,255) or (255,255,255,255).
C2_BinarizedLast ==
    pc = "done" /\ outcome = "ok"
    /\ params.binarization_method \in {"adaptive", "otsu", "mean", "sauvola"}
    => /\ ran # <<>>
       /\ Last(ran) = "apply_" \o params.binarization_method \o "_threshold"
       /\ \A i \in DOMAIN processed.px : processed.px[i] \in {<<0, 255>>, <<255, 255>>}

\* a finished Otsu run on a buffer with a translucent pixel, after other stages
C2_Witness ==
    /\ pc = "done" /\ outcome = "ok"
    /\ params.binarization_method = "otsu"
    /\ Len(ran) >= 2
    /\ \E i \in DOMAIN input.px : input.px[i][2] # 255
    /\ \E i \in DOMAIN processed.px : processed.px[i] = <<255, 255>>

C3_NothingEnabled ==
    /\ ~params.remove_borders
    /\ ~params.correct_skew
    /\ ~params.bilateral_filter
    /\ params.gaussian_blur <= 0
    /\ params.brightness = 0
    /\ params.contrast = 10
    /\ params.sharpness <= 10
    /\ ~params.use_clahe
    /\ params.morphology = "none"
    /\ params.binarization_method = "none"

\* C3: an operation whose enabling condition is false has not run, and with
\* every enabling condition false preprocess_image returns its input: no
\* operation ran, same dimensions, same pixels.
C3_DisabledIsNoOp ==
    /\ ~params.remove_borders => "remove_borders" \notin Range(ran)
    /\ ~params.correct_skew => Range(ran) \cap {"correct_skew", "correct_skew_projection"} = {}
    /\ ~params.bilateral_filter => "apply_bilateral_filter" \notin Range(ran)
    /\ params.gaussian_blur <= 0 => "apply_gaussian_blur" \notin Range(ran)
    /\ params.brightness = 0 => "adjust_brightness" \notin Range(ran)
    /\ params.contrast = 10 => "adjust_contrast" \notin Range(ran)
    /\ params.sharpness <= 10 => "adjust_sharpness" \notin Range(ran)
    /\ ~params.use_clahe => "apply_clahe" \notin Range(ran)
    /\ params.morphology = "none" => \A op \in Range(ran) : StageRank(op) # 8
    /\ params.binarization_method = "none" => Range(ran) \cap Binarizers = {}
    /\ pc = "done" /\ outcome = "ok" /\ C3_NothingEnabled
       => ran = <<>> /\ processed = input

\* a finished run with everything disabled, sharpness below 1.0
C3_Witness ==
    pc = "done" /\ outcome = "ok" /\ C3_NothingEnabled /\ params.sharpness < 10

\* C4: at most one denoiser has run, and with bilateral_filter set the
\* Gaussian blur has not run, whatever gaussian_blur is.
C4_OneDenoiser ==
    /\ Cardinality({i \in DOMAIN ran : ran[i] \in Denoisers}) <= 1
    /\ params.bilateral_filter => "apply_gaussian_blur" \notin Range(ran)

\* an adaptive run whose moderate-noise rule set gaussian_blur to 1.0 while
\* the caller had enabled the bilateral filter
C4_Witness ==
    /\ pc = "done" /\ outcome = "ok"
    /\ base.adaptive_mode /\ base.bilateral_filter /\ base.gaussian_blur = 0
    /\ metrics.noise_level > 12000 /\ metrics.noise_level <= 20000
    /\ params.gaussian_blur = 10
    /\ "apply_bilateral_filter" \in Range(ran)

\* the rules have been applied and the pipeline called with their result
RulesApplied == base.adaptive_mode /\ calls = 1

\* C5: the derived sharpness, contrast, contrast enhancement, bilateral
\* filter, morphology and gaussian_blur are those of the table, row by row,
\* and a field no row applies to has the value of the base parameters.
C5_DerivedByTable ==
    RulesApplied =>
    /\ metrics.blur_score < 30000 => params.sharpness = 20
    /\ metrics.blur_score >= 30000 /\ metrics.blur_score < 50000 => params.sharpness = 15
    /\ metrics.blur_score >= 50000 => params.sharpness = base.sharpness
    /\ metrics.contrast_score < 40000 => params.use_clahe /\ params.contrast = 15
    /\ metrics.contrast_score >= 40000 /\ metrics.contrast_score < 60000
       => params.contrast = 13 /\ params.use_clahe = base.use_clahe
    /\ metrics.contrast_score >= 60000
       => params.contrast = base.contrast /\ params.use_clahe = base.use_clahe
    /\ metrics.noise_level > 20000
       => /\ params.bilateral_filter
          /\ params.morphology = "opening"
          /\ params.gaussian_blur = base.gaussian_blur
    /\ metrics.noise_level > 12000 /\ metrics.noise_level <= 20000
       => /\ params.gaussian_blur = 10
          /\ params.bilateral_filter = base.bilateral_filter
          /\ params.morphology = base.morphology
    /\ metrics.noise_level <= 12000
       => /\ params.gaussian_blur = base.gaussian_blur
          /\ params.bilateral_filter = base.bilateral_filter
          /\ params.morphology = base.morphology
    /\ params.correct_skew = base.correct_skew
    /\ params.skew_method = base.skew_method
    /\ params.remove_borders = base.remove_borders
    /\ params.language = base.language

\* rules applied to metrics on the thresholds 30, 40 and 20
C5_Witness ==
    /\ RulesApplied
    /\ metrics.blur_score = 30000 /\ params.sharpness = 15
    /\ metrics.contrast_score = 40000 /\ params.contrast = 13
    /\ metrics.noise_level = 20000 /\ params.gaussian_blur = 10
    /\ base.gaussian_blur = 0

\* C6: the derived brightness is the base brightness plus 0.2 when
\* brightness_level < 80, the base brightness minus 0.1 when
\* brightness_level > 200, and the base brightness otherwise.
C6_BrightnessRelative ==
    RulesApplied =>
    params.brightness =
        IF metrics.brightness_level < 80000 THEN base.brightness + 2
        ELSE IF metrics.brightness_level > 200000 THEN base.brightness - 1
        ELSE base.brightness

\* C7, as claimed: Sauvola when brightness_level is outside [100,180] and the
\* base method is not none; Otsu in every other case with base method none;
\* the base method otherwise.
C7_BinarizationInOrder ==
    RulesApplied =>
    params.binarization_method =
        IF (metrics.brightness_level < 100000 \/ metrics.brightness_level > 180000)
           /\ base.binarization_method # "none"
        THEN "sauvola"
        ELSE IF base.binarization_method = "none" THEN "otsu"
        ELSE base.binarization_method

\* C7, amended: outside [100,180] a base method other than none becomes
\* Sauvola and a base method none stays none; within [100,180] a base method
\* none becomes Otsu and any other base method is kept.
C7_BinarizationNested ==
    RulesApplied =>
    LET uneven == metrics.brightness_level < 100000 \/ metrics.brightness_level > 180000
        isNone == base.binarization_method = "none"
    IN  /\ uneven /\ ~isNone => params.binarization_method = "sauvola"
        /\ uneven /\ isNone => params.binarization_method = "none"
        /\ ~uneven /\ isNone => params.binarization_method = "otsu"
        /\ ~uneven /\ ~isNone => params.binarization_method = base.binarization_method

\* rules applied to a dark image with base method none: still none
C7_Witness ==
    /\ RulesApplied
    /\ metrics.brightness_level = 99999
    /\ base.binarization_method = "none"
    /\ params.binarization_method = "none"

\* C8: the call depth is at most 2, adaptive_preprocess is only ever the
\* outermost frame, quality is assessed at most once and before any stage,
\* the pipeline is called at most once, with adaptive_mode false and the
\* parameters derived from the metrics of the input buffer, no operation
\* runs twice, and an adaptive run that returns has assessed once and called
\* the pipeline once.
C8_BoundedDepth ==
    /\ Len(stack) <= 2
    /\ \A i \in DOMAIN stack : stack[i] = "adaptive_preprocess" => i = 1
    /\ calls <= 1
    /\ assessed <= 1
    /\ calls = 0 => ran = <<>>
    /\ \A i, j \in DOMAIN ran : i # j => ran[i] # ran[j]
    /\ "preprocess_image" \in Range(stack) => ~params.adaptive_mode
    /\ RulesApplied
       => /\ assessed = 1
          /\ metrics = assess_image_quality(input)
          /\ params = AdaptiveParams(metrics, base)
    /\ pc = "done" /\ outcome = "ok" /\ base.adaptive_mode => calls = 1 /\ assessed = 1
    /\ pc = "done" => stack = <<>>

\* the inner call of an adaptive run, at depth 2
C8_Witness ==
    /\ base.adaptive_mode
    /\ stack = <<"adaptive_preprocess", "preprocess_image">>
    /\ pc = "binarization"
    /\ calls = 1 /\ assessed = 1
    /\ ran # <<>>

\* C9: a finished operation on a buffer with width or height below 3 -
\* a quality assessment, or a preprocess with sharpening or morphology
\* enabled - has returned an InvalidInput failure (so neither a success nor
\* a panic from an index underflow or a read outside the buffer).
C9_SmallBufferRejected ==
    /\ pc = "done"
    /\ input.w < 3 \/ input.h < 3
    /\ \/ assessed > 0
       \/ params.sharpness > 10
       \/ params.morphology \in {"erode", "dilate", "opening", "closing"}
    => outcome = "invalid_input"

KnownBinarizations == {"none", "adaptive", "otsu", "mean", "sauvola"}

KnownMorphologies == {"none", "erode", "dilate", "opening", "closing"}

\* the setting with every unrecognized value replaced by none
UnknownAsNone(p) ==
    [p EXCEPT
        !.binarization_method = IF @ \in KnownBinarizations THEN @ ELSE "none",
        !.morphology = IF @ \in KnownMorphologies THEN @ ELSE "none"]

\* C10: a finished run with an unrecognized binarization_method or
\* morphology has the result (outcome and buffer) the same call has with
\* that value replaced by none.
C10_UnknownLikeNone ==
    pc = "done" /\ base # UnknownAsNone(base)
    => [outcome |-> outcome, image |-> processed]
       = IF base.adaptive_mode
         THEN adaptive_preprocess(input, UnknownAsNone(base), build)
         ELSE preprocess_image(input, UnknownAsNone(base))

----------------------------------------------------------------------------
(* The quality assessment on its own: adaptive_preprocess is entered with   *)
(* buffers of every size up to MaxAssessDim, assessed, and the rules run    *)

MaxAssessDim == 11

AssessPatterns == {"flat", "board", "ramp"}

AssessImages ==
    {MakeImage(pat, w, h) : pat \in AssessPatterns,
                            w \in 1..MaxAssessDim, h \in 1..MaxAssessDim}

InitAssess ==
    /\ input \in AssessImages
    /\ base = [AllOff EXCEPT !.adaptive_mode = TRUE]
    /\ build = "either"
    /\ pc = "assess"
    /\ stack = <<"adaptive_preprocess">>
    /\ params = base
    /\ metrics = NoMetrics
    /\ processed = input
    /\ ran = <<>>
    /\ outcome = "running"
    /\ calls = 0
    /\ assessed = 0
    /\ lines = <<>>
    /\ rotations = 0

NextAssess ==
    \/ AssessQuality
    \/ DeriveAndCall

SpecAssess == InitAssess /\ [][NextAssess]_vars

IsFlat(img) == \A i \in DOMAIN img.px : img.px[i] = img.px[1]

IsBoard(img) == img = MakeImage("board", img.w, img.h)

\* C11: a buffer at least 3 pixels wide and high is assessed with blur,
\* contrast and noise in [0, 100] and brightness in [0, 255] (thousandths
\* here), and the assessment returns
C11_MetricsInRange ==
    assessed = 1 /\ input.w >= 3 /\ input.h >= 3 =>
        /\ outcome # "panic"
        /\ metrics.blur_score \in 0..100000
        /\ metrics.contrast_score \in 0..100000
        /\ metrics.noise_level \in 0..100000
        /\ metrics.brightness_level \in 0..255000

\* C12: a buffer less than 7 pixels wide or high is assessed without a
\* failure, with noise_level = 0, and the high-noise rule leaves the
\* bilateral filter and the morphology alone
C12_NoNoiseSamples ==
    assessed = 1 /\ (input.w < 7 \/ input.h < 7) =>
        /\ outcome # "panic"
        /\ metrics.noise_level = 0
        /\ calls = 1 => ~params.bilateral_filter /\ params.morphology = "none"

\* C20: a flat buffer at least 3 pixels wide and high is assessed with
\* blur_score = 0 and noise_level = 0, and a one-pixel checkerboard with
\* blur_score = 100
C20_FlatAndCheckerboard ==
    assessed = 1 /\ input.w >= 3 /\ input.h >= 3 =>
        /\ IsFlat(input) =>
              /\ outcome # "panic"
              /\ metrics.blur_score = 0
              /\ metrics.noise_level = 0
        /\ IsBoard(input) =>
              /\ outcome # "panic"
              /\ metrics.blur_score = 100000

\* C25: on a buffer at least 7 wide and 7 high the divisor of noise_level is
\* the number of windows sampled, and noise_level is the sum of their
\* standard deviations over that number, at most 100
C25_DivisorIsSampleCount ==
    assessed = 1 /\ input.w >= 7 /\ input.h >= 7 =>
        LET sampled == SamplePositions(input.w) \X SamplePositions(input.h)
        IN  /\ outcome # "panic"
            /\ samples(input) = Cardinality(sampled)
            /\ metrics.noise_level
                  = Min(SumOver(input, sampled, 0) \div Cardinality(sampled), 100000)

----------------------------------------------------------------------------
(* Border removal on its own: preprocess_image is at its first step with    *)
(* remove_borders set, on small buffers of every size and on buffers large *)
(* enough for the crop to cover more than 95% of the area                  *)

MaxBorderDim == 5

BorderPatterns == {"flat", "black", "board", "ramp", "checker"}

LargeDims == {<<39, 40>>, <<40, 39>>, <<40, 40>>}

LargePatterns == {"flat", "black", "framed"}

BorderImages ==
    {MakeImage(pat, w, h) : pat \in BorderPatterns,
                            w \in 1..MaxBorderDim, h \in 1..MaxBorderDim}
    \cup {MakeImage(pat, d[1], d[2]) : pat \in LargePatterns, d \in LargeDims}

InitBorders ==
    /\ input \in BorderImages
    /\ base = [AllOff EXCEPT !.remove_borders = TRUE]
    /\ build = "either"
    /\ pc = "borders"
    /\ stack = <<"preprocess_image">>
    /\ params = base
    /\ metrics = NoMetrics
    /\ processed = input
    /\ ran = <<>>
    /\ outcome = "running"
    /\ calls = 1
    /\ assessed = 0
    /\ lines = <<>>
    /\ rotations = 0

NextBorders == BordersStage

SpecBorders == InitBorders /\ [][NextBorders]_vars

C14_CropNotEmpty ==
    ran = <<"remove_borders">> => processed.w >= 1 /\ processed.h >= 1

----------------------------------------------------------------------------
\* C15: every pixel of every buffer a stage has produced has alpha = 255
C15_AlphaOpaque ==
    ran # <<>> => \A i \in DOMAIN processed.px : processed.px[i][2] = 255

\* C26: when remove_borders crops, the returned buffer is the inclusive
\* bounding box of the content rows and columns widened by the margin and
\* clamped to the buffer: it holds every content row and column, and its
\* width is min(last + margin, width - 1) - max(first - margin, 0) + 1, its
\* height likewise
C26_InclusiveBox ==
    ran = <<"remove_borders">> /\ processed # input =>
        LET cols == {x \in 0..(input.w - 1) : ColSum(input, x) > (input.h * 255) \div 10}
            rows == {y \in 0..(input.h - 1) : RowSum(input, y) > (input.w * 255) \div 10}
            first_col == IF cols = {} THEN 0 ELSE CHOOSE x \in cols : \A u \in cols : x <= u
            last_col == IF cols = {} THEN input.w - 1 ELSE CHOOSE x \in cols : \A u \in cols : x >= u
            first_row == IF rows = {} THEN 0 ELSE CHOOSE y \in rows : \A u \in rows : y <= u
            last_row == IF rows = {} THEN input.h - 1 ELSE CHOOSE y \in rows : \A u \in rows : y >= u
            margin_x == Max(input.w \div 50, 2)
            margin_y == Max(input.h \div 50, 2)
            box_left == Max(first_col - margin_x, 0)
            box_top == Max(first_row - margin_y, 0)
        IN  /\ processed.w = Min(last_col + margin_x, input.w - 1) - box_left + 1
            /\ processed.h = Min(last_row + margin_y, input.h - 1) - box_top + 1
            /\ \A x \in cols : box_left <= x /\ x < box_left + processed.w
            /\ \A y \in rows : box_top <= y /\ y < box_top + processed.h

----------------------------------------------------------------------------
(* The binarizers on their own: preprocess_image is at its last step with   *)
(* one of the four methods, on every buffer of at most MaxBinPixels pixels *)
(* over three intensities, on two-intensity buffers, and on a strip longer *)
(* than the local windows                                                  *)

MaxBinPixels == 4

BinPalette == {0, 100, 255}

BinDims ==
    {d \in (1..MaxBinPixels) \X (1..MaxBinPixels) : d[1] * d[2] <= MaxBinPixels}

PaletteImages ==
    UNION {{[w |-> d[1], h |-> d[2],
             px |-> [i \in 1..(d[1] * d[2]) |-> <<f[i], 255>>]] :
                f \in [1..(d[1] * d[2]) -> BinPalette]} : d \in BinDims}

BimodalLevels == {0, 50, 51, 200, 255}

BimodalDims == {<<2, 1>>, <<2, 2>>, <<4, 2>>, <<4, 4>>}

\* half of the pixels at intensity a, the other half at intensity b
BimodalImage(a, b, w, h) ==
    [w |-> w, h |-> h,
     px |-> [i \in 1..(w * h) |-> <<IF 2 * i <= w * h THEN a ELSE b, 255>>]]

BimodalImages ==
    {BimodalImage(ab[1], ab[2], d[1], d[2]) :
        ab \in {l \in BimodalLevels \X BimodalLevels : l[1] # l[2]},
        d \in BimodalDims}

\* one row of 51 pixels whose intensity grows as x^2 / 10: every pixel away
\* from the right end is darker than the mean of its block
ConvexStrip ==
    [w |-> 51, h |-> 1, px |-> [i \in 1..51 |-> <<((i - 1) * (i - 1)) \div 10, 255>>]]

\* three pixels at equal distances: the thresholds 0 and 100 have the same
\* between-class variance
SymmetricStrip ==
    [w |-> 3, h |-> 1, px |-> <<<<0, 255>>, <<100, 255>>, <<200, 255>>>>]

BinImages == PaletteImages \cup BimodalImages \cup {ConvexStrip, SymmetricStrip}

BinMethods == {"adaptive", "otsu", "mean", "sauvola"}

InitBinarize ==
    /\ input \in BinImages
    /\ \E method \in BinMethods :
          /\ input = ConvexStrip => method # "otsu"
          /\ base = [AllOff EXCEPT !.binarization_method = method]
    /\ build = "either"
    /\ pc = "binarization"
    /\ stack = <<"preprocess_image">>
    /\ params = base
    /\ metrics = NoMetrics
    /\ processed = input
    /\ ran = <<>>
    /\ outcome = "running"
    /\ calls = 1
    /\ assessed = 0
    /\ lines = <<>>
    /\ rotations = 0

NextBinarize ==
    \/ BinarizationStage
    \/ ReturnPreprocess

SpecBinarize == InitBinarize /\ [][NextBinarize]_vars

Intensities(img) == {img.px[i][1] : i \in DOMAIN img.px}

\* C16: apply_otsu_threshold applied to its own output returns that output,
\* and so does apply_mean_threshold
C16_GlobalIdempotent ==
    /\ ran = <<"apply_otsu_threshold">> => apply_otsu_threshold(processed) = processed
    /\ ran = <<"apply_mean_threshold">> => apply_mean_threshold(processed) = processed

\* an Otsu output with both colours
C16_Witness ==
    /\ ran = <<"apply_otsu_threshold">>
    /\ Intensities(processed) = {0, 255}
    /\ processed # input

\* C17: apply_sauvola_threshold applied to its own output returns that output
C17_SauvolaIdempotent ==
    ran = <<"apply_sauvola_threshold">> => apply_sauvola_threshold(processed) = processed

\* a Sauvola output with both colours on a buffer wider than the window
C17_Witness ==
    /\ ran = <<"apply_sauvola_threshold">>
    /\ input.w > 15
    /\ Intensities(processed) = {0, 255}

\* C18: apply_adaptive_threshold applied to its own output returns that
\* output
C18_AdaptiveIdempotent ==
    ran = <<"apply_adaptive_threshold">> => apply_adaptive_threshold(processed) = processed

\* exactly two intensities, each on half of the pixels
IsBimodal(img) ==
    /\ Cardinality(Intensities(img)) = 2
    /\ \A v \in Intensities(img) :
          2 * Cardinality({i \in DOMAIN img.px : img.px[i][1] = v}) = img.w * img.h

LowLevel(img) == CHOOSE v \in Intensities(img) : \A u \in Intensities(img) : v <= u

HighLevel(img) == CHOOSE v \in Intensities(img) : \A u \in Intensities(img) : v >= u

\* C19 as claimed: on a two-intensity buffer the Otsu threshold lies strictly
\* between the two intensities
C19_OtsuStrictlyBetween ==
    ran = <<"apply_otsu_threshold">> /\ IsBimodal(input) =>
        /\ LowLevel(input) < calculate_otsu_threshold(to_luma8(input))
        /\ calculate_otsu_threshold(to_luma8(input)) < HighLevel(input)

\* C19: on a two-intensity buffer the Otsu threshold is the lower intensity,
\* and the binarization separates the two intensities
C19_OtsuAtLowerLevel ==
    ran = <<"apply_otsu_threshold">> /\ IsBimodal(input) =>
        /\ calculate_otsu_threshold(to_luma8(input)) = LowLevel(input)
        /\ \A i \in DOMAIN input.px :
              processed.px[i][1] = IF input.px[i][1] = HighLevel(input) THEN 255 ELSE 0

\* the buffer with 8 pixels at 50 and 8 pixels at 200 has been binarized
C19_Witness ==
    /\ ran = <<"apply_otsu_threshold">>
    /\ input = BimodalImage(50, 200, 4, 4)
    /\ calculate_otsu_threshold(to_luma8(input)) = 50

\* C24: calculate_otsu_threshold is the least t of 0..255 with both classes
\* non-empty whose between-class variance is greatest, and 0 when no t has
\* both classes non-empty; the pixels above it become white, so an all-white
\* buffer is binarized by Otsu to itself
C24_OtsuLeastMaximiser ==
    ran = <<"apply_otsu_threshold">> =>
        LET g == to_luma8(input)
            chosen == calculate_otsu_threshold(g)
            back(t) == {i \in DOMAIN g : g[i] <= t}
            fore(t) == DOMAIN g \ back(t)
            total(c) == SumSeq([i \in DOMAIN g |-> IF i \in c THEN g[i] ELSE 0])
            both == {t \in 0..255 : back(t) # {} /\ fore(t) # {}}
            n(t) == total(back(t)) * Cardinality(fore(t))
                        - total(fore(t)) * Cardinality(back(t))
            num(t) == n(t) * n(t)
            den(t) == Cardinality(back(t)) * Cardinality(fore(t))
        IN  /\ both = {} => chosen = 0
            /\ both # {} =>
                  /\ chosen \in both
                  /\ \A u \in both :
                        /\ ~FracLess(num(chosen), den(chosen), num(u), den(u))
                        /\ u < chosen => FracLess(num(u), den(u), num(chosen), den(chosen))
            /\ \A i \in DOMAIN g : processed.px[i] = <<IF g[i] > chosen THEN 255 ELSE 0, 255>>
            /\ Intensities(input) = {255} => processed = input

\* the thresholds 0 and 100 tie on the symmetric strip and 0 has been chosen
C24_Witness ==
    /\ ran = <<"apply_otsu_threshold">>
    /\ input = SymmetricStrip
    /\ processed.px = <<<<0, 255>>, <<255, 255>>, <<255, 255>>>>

\* C30: the output of apply_mean_threshold has a black pixel; a buffer of
\* one intensity, white included, is binarized by the mean method to an
\* all-black buffer, while the Otsu method keeps an all-white buffer white
C30_MeanHasBlack ==
    /\ ran = <<"apply_mean_threshold">> =>
          /\ 0 \in Intensities(processed)
          /\ Cardinality(Intensities(input)) = 1 => Intensities(processed) = {0}
    /\ ran = <<"apply_otsu_threshold">> /\ Intensities(input) = {255} =>
          Intensities(processed) = {255}

\* an all-white buffer of two or more pixels has been binarized by the mean
\* method to all black
C30_Witness ==
    /\ ran = <<"apply_mean_threshold">>
    /\ Intensities(input) = {255}
    /\ input.w * input.h > 1
    /\ Intensities(processed) = {0}

----------------------------------------------------------------------------
(* The contrast adjustment on its own: preprocess_image is at its contrast  *)
(* step on a one-pixel buffer of every intensity, with every factor that   *)
(* has a reciprocal in tenths                                              *)

ChannelValues == 0..255

\* 0.1, 0.2, 0.4, 0.5, 2.0, 2.5, 5.0, 10.0
ContrastFactors == {1, 2, 4, 5, 20, 25, 50, 100}

\* 1 / c, in tenths
Reciprocal(c) == 100 \div c

InitContrast ==
    /\ \E x \in ChannelValues : input = [w |-> 1, h |-> 1, px |-> <<<<x, 255>>>>]
    /\ \E c \in ContrastFactors : base = [AllOff EXCEPT !.contrast = c]
    /\ build = "either"
    /\ pc = "contrast"
    /\ stack = <<"preprocess_image">>
    /\ params = base
    /\ metrics = NoMetrics
    /\ processed = input
    /\ ran = <<>>
    /\ outcome = "running"
    /\ calls = 1
    /\ assessed = 0
    /\ lines = <<>>
    /\ rotations = 0

NextContrast == ContrastStage

SpecContrast == InitContrast /\ [][NextContrast]_vars

\* (x - 128) * c + 128 lies within [0, 255]: the first application does not
\* clamp, and then neither does the second
NoClamping(x, c) == (x - 128) * c + 1280 >= 0 /\ (x - 128) * c + 1280 <= 2550

\* the channel after adjust_contrast(c) and then adjust_contrast(1 / c)
RoundTrip == adjust_contrast(processed, Reciprocal(params.contrast)).px[1][1]

\* C21 as claimed: without clamping, adjust_contrast with 1/c applied to the
\* result of adjust_contrast with c is within one level of x, for every c
C21_ContrastInverse ==
    ran = <<"adjust_contrast">> /\ NoClamping(input.px[1][1], params.contrast) =>
        Abs(RoundTrip - input.px[1][1]) <= 1

\* C21: without clamping the round trip gives x or x - 1 for c >= 1, and for
\* every c it falls short of x by less than 1 + 1/c levels
C21_ContrastInverseExpanding ==
    ran = <<"adjust_contrast">> /\ NoClamping(input.px[1][1], params.contrast) =>
        /\ RoundTrip <= input.px[1][1]
        /\ params.contrast >= 10 => input.px[1][1] - RoundTrip <= 1
        /\ (input.px[1][1] - RoundTrip - 1) * params.contrast < 10

\* 101 with c = 2.5 becomes 60 (60.5 truncated), and 60 with 0.4 becomes 100
C21_Witness ==
    /\ ran = <<"adjust_contrast">>
    /\ params.contrast = 25
    /\ input.px[1][1] = 101
    /\ processed.px[1][1] = 60
    /\ RoundTrip = 100

----------------------------------------------------------------------------
(* Opening and closing on their own: preprocess_image is at its morphology  *)
(* step on every buffer of up to MaxMorphDim x MaxMorphDim pixels that is  *)
(* black with one white pixel or white with one black pixel                *)

MaxMorphDim == 4

\* colour `spot` at pixel k, colour `ground` everywhere else
SpotImage(w, h, k, spot, ground) ==
    [w |-> w, h |-> h,
     px |-> [i \in 1..(w * h) |-> <<IF i = k THEN spot ELSE ground, 255>>]]

MorphImages ==
    UNION {{SpotImage(d[1], d[2], k, c[1], c[2]) : k \in 1..(d[1] * d[2]),
                                                   c \in {<<255, 0>>, <<0, 255>>}} :
            d \in (1..MaxMorphDim) \X (1..MaxMorphDim)}

InitMorphology ==
    /\ input \in MorphImages
    /\ \E mo \in {"opening", "closing"} : base = [AllOff EXCEPT !.morphology = mo]
    /\ build = "either"
    /\ pc = "morphology"
    /\ stack = <<"preprocess_image">>
    /\ params = base
    /\ metrics = NoMetrics
    /\ processed = input
    /\ ran = <<>>
    /\ outcome = "running"
    /\ calls = 1
    /\ assessed = 0
    /\ lines = <<>>
    /\ rotations = 0

NextMorphology == MorphologyStage

SpecMorphology == InitMorphology /\ [][NextMorphology]_vars

\* the number of pixels of intensity v
CountOf(img, v) == Cardinality({i \in DOMAIN img.px : img.px[i][1] = v})

\* C22: opening is dilate after erode and closing is erode after dilate; a
\* buffer of two or more pixels that is black but for one white pixel is
\* opened to an all-black buffer, and one that is white but for one black
\* pixel is closed to an all-white buffer
C22_OpeningClosing ==
    /\ ran = <<"apply_opening">> =>
          /\ processed.px = FromLuma(input.w, input.h,
                dilate(input.w, input.h, erode(input.w, input.h, to_luma8(input)))).px
          /\ CountOf(input, 255) = 1 /\ CountOf(input, 0) >= 1
                => CountOf(processed, 0) = input.w * input.h
    /\ ran = <<"apply_closing">> =>
          /\ processed.px = FromLuma(input.w, input.h,
                erode(input.w, input.h, dilate(input.w, input.h, to_luma8(input)))).px
          /\ CountOf(input, 0) = 1 /\ CountOf(input, 255) >= 1
                => CountOf(processed, 255) = input.w * input.h

\* a white pixel in the corner of a 4 x 4 black buffer has been opened away
C22_Witness ==
    /\ ran = <<"apply_opening">>
    /\ input = SpotImage(4, 4, 1, 255, 0)
    /\ CountOf(processed, 0) = 16

----------------------------------------------------------------------------
(* Skew correction on its own: correct_skew and correct_skew_projection *)

\* a buffer of one intensity
SolidImage(v, w, h) == [w |-> w, h |-> h, px |-> [i \in 1..(w * h) |-> <<v, 255>>]]

SolidLevels == {0, 1, 128, 255}

SolidDims == {<<1, 1>>, <<3, 3>>, <<4, 32>>}

SolidImages == {SolidImage(v, d[1], d[2]) : v \in SolidLevels, d \in SolidDims}

\* a white buffer whose rows first..last are black
BarImage(w, h, first, last) ==
    [w |-> w, h |-> h,
     px |-> [i \in 1..(w * h) |->
                <<IF (i - 1) \div w + 1 \in first..last THEN 0 ELSE 255, 255>>]]

BarImages == {BarImage(4, 6, 3, 4), BarImage(6, 4, 2, 2), BarImage(5, 5, 1, 1)}

\* a ruled line across a strip 210 pixels wide, long enough for 200 votes
LinePage == BarImage(210, 3, 2, 2)

\* the results of detect_lines the model explores: every single line, and
\* some pairs
LineSets ==
    {<<>>} \cup {<<theta>> : theta \in 0..179}
           \cup {<<44, 45>>, <<45, 45>>, <<45, 135>>, <<0, 1>>, <<1, 179>>,
                 <<10, 45>>, <<90, 0>>, <<46, 134>>, <<135, 136>>}

\* lines are found only on the ruled strip, and only correct_skew asks for
\* them
InitSkew ==
    /\ input \in SolidImages \cup BarImages \cup {LinePage}
    /\ base \in {[AllOff EXCEPT !.correct_skew = TRUE, !.skew_method = m] :
                    m \in {"hough", "projection"}}
    /\ lines \in LineSets
    /\ lines # <<>> => input = LinePage /\ base.skew_method = "hough"
    /\ input = LinePage => base.skew_method = "hough"
    /\ build = "either"
    /\ pc = "skew"
    /\ stack = <<"preprocess_image">>
    /\ params = base
    /\ metrics = NoMetrics
    /\ processed = input
    /\ ran = <<>>
    /\ outcome = "running"
    /\ calls = 1
    /\ assessed = 0
    /\ rotations = 0

NextSkew == SkewStage

SpecSkew == InitSkew /\ [][NextSkew]_vars

\* C23: a buffer of one intensity, whatever the intensity, comes out of
\* correct_skew_projection and of correct_skew unchanged
C23_FlatUnchanged ==
    pc = "denoise" /\ IsFlat(input) => processed = input

\* C27: every detected line's angle is normalized into (-45, 45] and a line
\* is dropped only when the magnitude of its normalized angle is above 45,
\* so a line at exactly 45 degrees takes part in the average
C27_LineAt45Kept ==
    ran = <<"correct_skew">> /\ lines # <<>> =>
        LET normalized == [i \in 1..Len(lines) |-> NormalizedAngle(lines[i])]
            kept == SelectSeq(normalized, LAMBDA a : Abs(a) <= 45)
            sum == SumSeq(kept)
        IN  /\ \A i \in 1..Len(lines) : normalized[i] > -45 /\ normalized[i] <= 45
            /\ kept = normalized
            /\ processed = IF 2 * Abs(sum) < Len(kept) THEN input
                           ELSE rotate_about_center(input, -sum, Len(kept))

\* the candidate angles as a set
TestedAngles == {CandidateAngles[i] : i \in DOMAIN CandidateAngles}

\* what correct_skew_projection returns when it has selected the angle s
ReturnedFor(s) ==
    IF Abs(s) < 3 THEN input ELSE rotate_about_center(input, -s, 10)

\* the projection variance of the input's binary plane rotated by t
VarianceAt(t) == ProjectionVariance(SkewBinary(input), input.w, input.h, t)

\* s is the smallest tested angle whose variance is the greatest
FirstMaximiser(s) ==
    LET v == VarianceAt(s)
    IN  \A u \in TestedAngles : VarianceAt(u) <= v /\ (u < s => VarianceAt(u) < v)

\* C28 as claimed: the smallest tested angle of greatest variance is
\* selected, also when every candidate has the same variance
C28_FirstMaximiserAlways ==
    ran = <<"correct_skew_projection">> =>
        \E s \in TestedAngles : processed = ReturnedFor(s) /\ FirstMaximiser(s)

\* C28: correct_skew_projection selects the smallest tested angle of
\* greatest projection variance when some variance is above zero, and the
\* angle 0.0 when every variance is zero; it returns the input when the
\* selected angle is below 0.3 degrees in magnitude and else the colour
\* buffer rotated by the negative of the selected angle
C28_FirstPositiveMaximiser ==
    ran = <<"correct_skew_projection">> =>
        \E s \in TestedAngles :
            /\ processed = ReturnedFor(s)
            /\ IF \A u \in TestedAngles : VarianceAt(u) = 0
               THEN s = 0
               ELSE FirstMaximiser(s)

\* the all-black 4 x 32 buffer, whose variance is greatest at -9.7 and at
\* +9.7 degrees, has been rotated by +9.7 degrees
C28_Witness ==
    /\ ran = <<"correct_skew_projection">>
    /\ input = SolidImage(0, 4, 32)
    /\ VarianceAt(-97) = VarianceAt(97)
    /\ processed = rotate_about_center(input, 97, 10)

\* C29 as claimed: the angle search of one call of correct_skew_projection
\* makes 21 calls of rotate_about_center
C29_TwentyOneRotations ==
    ran = <<"correct_skew_projection">> =>
        rotations - (IF processed = input THEN 0 ELSE 1) = 21

\* C29: the angle search of one call of correct_skew_projection makes 201
\* calls of rotate_about_center, one per candidate from -10.0 to +10.0
\* degrees in steps of 0.1, whatever the input (the rotation of the colour
\* buffer that follows the search is not counted)
C29_RotationsPerCandidate ==
    ran = <<"correct_skew_projection">> =>
        rotations - (IF processed = input THEN 0 ELSE 1) = 201

\* the search has run on a buffer that was then rotated: 202 calls
C29_Witness ==
    /\ ran = <<"correct_skew_projection">>
    /\ processed # input
    /\ rotations = 202

============================================================================
